---------------------------- MODULE Spec2Model ----------------------------
(***************************************************************************)
(* Model of internal/core/drand_beacon_control.go: the control-plane       *)
(* handlers StartFollowChain and StartCheckChain of a BeaconProcess, the   *)
(* sync guard bp.syncerCancel they share, the progress callbacks built by  *)
(* sendProgressCallback / sendPlainProgressCallback, chainInfoFromPeers    *)
(* and validateGroupTransition.                                            *)
(***************************************************************************)
EXTENDS Integers, Sequences, FiniteSets, TLC

(***************************************************************************)
(* Bounds of the model.                                                    *)
(***************************************************************************)
\* number of concurrent control invocations on the node
NProcs == 2
\* largest time value (genesis time, period, transition time, clock)
MaxTime == 1
\* longest peer list given to chainInfoFromPeers
MaxPeers == 3
\* number of callback calls made on one free-running progress reporter
MaxCalls == 3
\* largest round number (wall-clock round, requested bound, stored rounds)
MaxRound == 2
\* largest number of faulty beacons a validation pass returns
MaxFaulty == 2

(***************************************************************************)
(* Program constants.                                                      *)
(***************************************************************************)
\* common.LogsToSkip, the skip-threshold S of the progress rate limiter
LogsToSkip == 300

(***************************************************************************)
(* validateGroupTransition (lines 598-633).                                *)
(* A *key.Group is a record; isNil marks the nil pointer.                  *)
(***************************************************************************)
BeaconIDs == {"", "default", "other"}
Seeds == {<<1>>, <<2>>}
Times == 0..MaxTime

NilGroup == [isNil |-> TRUE, GenesisTime |-> 0, Period |-> 0, ID |-> "",
             GenesisSeed |-> <<>>, TransitionTime |-> 0]

Groups == [isNil : {FALSE}, GenesisTime : Times, Period : Times, ID : BeaconIDs,
           GenesisSeed : Seeds, TransitionTime : Times]

GroupPtrs == Groups \cup {NilGroup}

\* common.IsDefaultBeaconID: the empty identifier stands for "default"
IsDefaultBeaconID(id) == id = "" \/ id = "default"

\* common.CompareBeaconIDs: equal up to the default identifier
CompareBeaconIDs(id1, id2) ==
    IF IsDefaultBeaconID(id1) /\ IsDefaultBeaconID(id2) THEN TRUE ELSE id1 = id2

\* bytes.Equal on the genesis seeds
BytesEqual(a, b) == a = b

validateGroupTransition_SwappedChecks(oldGroup, newGroup, now) ==
    IF oldGroup.isNil
    THEN IF newGroup.isNil THEN "errNilGroup" ELSE "ok"
    ELSE IF newGroup.isNil THEN "panic"
    ELSE IF oldGroup.Period # newGroup.Period THEN "errPeriod"
    ELSE IF oldGroup.GenesisTime # newGroup.GenesisTime THEN "errGenesisTime"
    ELSE IF ~CompareBeaconIDs(oldGroup.ID, newGroup.ID) THEN "errID"
    ELSE IF ~BytesEqual(oldGroup.GenesisSeed, newGroup.GenesisSeed) THEN "errSeed"
    ELSE IF newGroup.TransitionTime <= now THEN "errTransitionPast"
    ELSE "ok"

\* The error returned by validateGroupTransition ("ok" for nil); "panic" is the
\* nil-pointer dereference of newGroup.GenesisTime at line 608.
validateGroupTransition(oldGroup, newGroup, now) ==
    IF oldGroup.isNil
    THEN IF newGroup.isNil THEN "errNilGroup" ELSE "ok"
    ELSE IF newGroup.isNil THEN "panic"
    ELSE IF oldGroup.GenesisTime # newGroup.GenesisTime THEN "errGenesisTime"
    ELSE IF oldGroup.Period # newGroup.Period THEN "errPeriod"
    ELSE IF ~CompareBeaconIDs(oldGroup.ID, newGroup.ID) THEN "errID"
    ELSE IF ~BytesEqual(oldGroup.GenesisSeed, newGroup.GenesisSeed) THEN "errSeed"
    ELSE IF newGroup.TransitionTime < now THEN "errTransitionPast"
    ELSE "ok"

(***************************************************************************)
(* chainInfoFromPeers (lines 494-528).                                     *)
(* What a peer does when asked for its chain info: the transport fails,    *)
(* the packet does not parse, or the packet parses to an Info.             *)
(***************************************************************************)
NilInfo == "nil"
Infos == {"infoA", "infoB"}

PeerOutcomes == {[kind |-> "transportErr", info |-> NilInfo],
                 [kind |-> "parseErr", info |-> NilInfo]}
                \cup {[kind |-> "ok", info |-> x] : x \in Infos}

\* One iteration of the loop of lines 511-523 on the locals (info, err).
\* Line 513 assigns err alone; line 518 assigns both info and err from the
\* results of public.InfoFromProto, which are (nil, error) when the packet
\* does not parse.
chainInfoStep(acc, o) ==
    IF o.kind = "transportErr" THEN [info |-> acc.info, err |-> "transportErr"]
    ELSE IF o.kind = "parseErr" THEN [info |-> NilInfo, err |-> "parseErr"]
    ELSE [info |-> o.info, err |-> "nil"]

RECURSIVE chainInfoLoop(_, _)
chainInfoLoop(acc, outs) ==
    IF outs = <<>> THEN acc
    ELSE chainInfoLoop(chainInfoStep(acc, Head(outs)), Tail(outs))

\* The result of chainInfoFromPeers on peers answering outs[1], outs[2], ...
chainInfoFromPeers(outs) ==
    LET r == chainInfoLoop([info |-> NilInfo, err |-> "nil"], outs)
    IN  IF r.info = NilInfo
        THEN [info |-> NilInfo, err |-> "unableToGetChainInfo", lastErr |-> r.err]
        ELSE [info |-> r.info, err |-> "nil", lastErr |-> "nil"]

(***************************************************************************)
(* The callback of sendPlainProgressCallback (lines 572-593).              *)
(***************************************************************************)
cbClamp_None(curr, targ) == targ

\* lines 574-576
cbClamp(curr, targ) == IF curr > targ THEN curr ELSE targ

cbSkip_NoAlign(curr, targ) ==
    targ > LogsToSkip /\ targ - curr > LogsToSkip

\* line 578, on the clamped target
cbSkip(curr, targ) ==
    targ > LogsToSkip /\ targ - curr > LogsToSkip /\ curr % LogsToSkip # 0

\* line 589, on the clamped target
cbReached(keepFollowing, curr, targ) == ~keepFollowing /\ targ > 0 /\ curr = targ

plainProgressCb_SendsTarget(keepFollowing, doneClosed, curr, targ) ==
    LET t == cbClamp(curr, targ)
        skip == cbSkip(curr, t)
        cl == ~skip /\ cbReached(keepFollowing, curr, t)
    IN  [send |-> ~skip, Current |-> t, Target |-> t,
         close |-> cl, panic |-> cl /\ doneClosed]

plainProgressCb_TestBeforeClamp(keepFollowing, doneClosed, curr, targ) ==
    LET t == cbClamp(curr, targ)
        skip == cbSkip(curr, t)
        cl == ~skip /\ cbReached(keepFollowing, curr, targ)
    IN  [send |-> ~skip, Current |-> curr, Target |-> t,
         close |-> cl, panic |-> cl /\ doneClosed]

\* What one call cb(curr, targ) does, given whether done is already closed:
\* whether stream.Send is called and with which message, whether close(done)
\* is executed, and whether that close panics (close of a closed channel).
plainProgressCb(keepFollowing, doneClosed, curr, targ) ==
    LET t == cbClamp(curr, targ)
        skip == cbSkip(curr, t)
        cl == ~skip /\ cbReached(keepFollowing, curr, t)
    IN  [send |-> ~skip, Current |-> curr, Target |-> t,
         close |-> cl, panic |-> cl /\ doneClosed]


(***************************************************************************)
(* State.                                                                  *)
(***************************************************************************)
VARIABLES
    syncerCancel,  \* bp.syncerCancel: NoHandle (nil) or the invocation whose
                   \* session context the stored cancel function cancels
    crashed,       \* the process died of an unrecovered panic
    inv,           \* inv[i]: the locals of control invocation i (Session)
    vgt,           \* an evaluation of validateGroupTransition
    ci,            \* an evaluation of chainInfoFromPeers
    prog           \* a progress reporter driven on its own

vars == <<syncerCancel, crashed, inv, vgt, ci, prog>>

Procs == 1..NProcs
NoHandle == 0

\* bp.priv.Public.Addr, the node's own address, and two peers
SelfAddr == "self"
\* the request's node lists (req.Nodes)
NodeLists == {<<>>, <<SelfAddr>>, <<"p1">>, <<SelfAddr, "p1">>}
\* the chain hashes a request can carry (req.Metadata.ChainHash)
Hashes == {"hashA", "hashB"}
\* bp.getBeaconID()
NodeBeaconID == "default"
\* info.Hash() and info.ID of the two chain infos a peer can answer with
InfoHash(info) == IF info = "infoA" THEN "hashA" ELSE "hashB"
InfoID(info) == IF info = "infoA" THEN "default" ELSE "other"

Rounds == 0..MaxRound

\* lines 298-305 and 435-443: the request's nodes without our own address
PeersOf(nodes) == SelectSeq(nodes, LAMBDA a : a # SelfAddr)

\* line 374: errChan is declared and never made: it is the nil channel
ErrChan == "nil"

\* The locals of an invocation that has not been made.
IdleSession ==
    [pc |-> "idle", kind |-> "none", ret |-> "none", nodes |-> <<>>, upTo |-> 0, hash |-> "hashA",
     info |-> NilInfo,         \* the chain info of line 307
     defers |-> <<>>,          \* the deferred calls, last registered first
     callerDone |-> FALSE,     \* the caller's context is cancelled
     ctxDone |-> FALSE,        \* the session context (lines 283, 420) is cancelled
     syncDone |-> FALSE,       \* the current attempt's syncCtx is cancelled
     store |-> "none",         \* the store of createDBStore: none, open, closed
     cbAdded |-> FALSE,        \* the progress callback is registered in cbStore
     syncer |-> "none",        \* the SyncManager: none, running, stopped
     attempts |-> 0,           \* sync attempts started (iterations of the loop)
     sync |-> "none",          \* the goroutine of line 378: none, running, or
                               \* sendErr / sendNil: Sync returned and the
                               \* goroutine is sending its result on errChan
     currentRound |-> 0,       \* common.CurrentRound at line 542
     targ |-> 0,               \* the target the callback reports against
     keepFollowing |-> FALSE,
     done |-> 0,               \* executions of close(done) on the current reporter
     inSend |-> "no",          \* a callback call waits in stream.Send (line 582):
                               \* no, plain, or close when line 589 will hold
     lastRound |-> 0,          \* last round the collaborator reported
     stream |-> <<>>,          \* the messages handed to stream.Send, in order
     sendErr |-> FALSE,        \* the last stream.Send returned an error
     faulty |-> 0,             \* len(faultyBeacons)
     corrections |-> 0]        \* calls of bp.beacon.CorrectChain

Active(i) == inv[i].pc \notin {"idle", "returned"}

\* Invocation i has stored its cancel function and not yet run its release.
Holds(i) == Active(i)

\* No caller is still looking at a returned invocation.
NoneReturned == \A j \in Procs : inv[j].pc # "returned"

\* Slot i names no invocation and no goroutine left over from one.
Free(i) == inv[i].pc = "idle" /\ inv[i].inSend = "no"

Msg(curr, t, ph) == [Current |-> curr, Target |-> t, phase |-> ph]

\* `return r`: the deferred calls run next.
Exit(s, r) == [s EXCEPT !.pc = "exit", !.ret = r]

\* A call cb(curr, t) of the session's current reporter up to the point where
\* it waits in stream.Send (lines 572-585): a suppressed call has returned, any
\* other has handed its message to the stream.  The collaborator that made
\* the call waits for it, so one call is under way at a time.
CallCb(s, curr, t, ph) ==
    LET e == plainProgressCb(s.keepFollowing, s.done >= 1, curr, t)
    IN  IF e.send
        THEN [s EXCEPT !.stream = Append(@, Msg(e.Current, e.Target, ph)),
                       !.inSend = IF e.close THEN "close" ELSE "plain"]
        ELSE s

CbSendReturn_ReturnsOnSendErr(s, sendOk) ==
    [s EXCEPT !.sendErr = ~sendOk,
              !.done = IF s.inSend = "close" /\ sendOk THEN @ + 1 ELSE @,
              !.inSend = "no"]

\* stream.Send returns (lines 586-592): an error is logged, and the call
\* closes done when line 589 holds.
CbSendReturn(s, sendOk) ==
    [s EXCEPT !.sendErr = ~sendOk,
              !.done = IF s.inSend = "close" THEN @ + 1 ELSE @,
              !.inSend = "no"]

\* Whether the close of line 591 panics: done is closed already.
CbPanics(s) == s.inSend = "close" /\ s.done >= 1

AuxUnchanged == UNCHANGED <<vgt, ci, prog>>

(***************************************************************************)
(* The sync guard (lines 269-296 and 412-430).                             *)
(***************************************************************************)
\* lines 269-285 / 412-422 under bp.state.Lock(): the session to continue
\* with, or the return of the contention error.
tryAcquire_NoCheck(i, s) ==
    /\ syncerCancel' = i
    /\ inv' = [inv EXCEPT ![i] = [s EXCEPT !.defers = <<"release">>]]

tryAcquire(i, s) ==
    IF syncerCancel # NoHandle
    THEN /\ inv' = [inv EXCEPT ![i] = [IdleSession EXCEPT !.pc = "returned",
                                                         !.ret = "errAlreadySyncing"]]
         /\ UNCHANGED syncerCancel
    ELSE /\ syncerCancel' = i
         /\ inv' = [inv EXCEPT ![i] = [s EXCEPT !.defers = <<"release">>]]

\* Calling the stored cancel function cancels its owner's session context,
\* and with it the sync sub-scope derived from it.
Cancelled(s) == [s EXCEPT !.ctxDone = TRUE, !.syncDone = (@ \/ s.attempts > 0)]

release_NoCancel(i) ==
    /\ syncerCancel' = NoHandle
    /\ inv' = [inv EXCEPT ![i] = [@ EXCEPT !.defers = Tail(@), !.pc = "returned"]]

\* lines 287-296 / 423-430: the deferred release, the first deferred call
\* registered and so the last to run.
release(i) ==
    /\ syncerCancel' = NoHandle
    /\ inv' = [j \in Procs |->
                 LET s == IF j = syncerCancel THEN Cancelled(inv[j]) ELSE inv[j]
                 IN  IF j = i THEN [s EXCEPT !.defers = Tail(@), !.pc = "returned"]
                     ELSE s]

DeferRelease(i) ==
    /\ ~crashed
    /\ inv[i].pc = "exit"
    /\ inv[i].defers # <<>> /\ Head(inv[i].defers) = "release"
    /\ release(i)
    /\ UNCHANGED crashed
    /\ AuxUnchanged

(***************************************************************************)
(* StartFollowChain (lines 263-396).                                       *)
(***************************************************************************)
\* lines 263-296: the invocation with its request, up to the deferred release
FollowAcquire(i, nodes, upTo, hash) ==
    /\ ~crashed /\ NoneReturned
    /\ Free(i)
    /\ tryAcquire(i, [IdleSession EXCEPT !.pc = "f_info", !.kind = "follow",
                                         !.nodes = nodes,
                                         !.upTo = upTo, !.hash = hash])
    /\ UNCHANGED crashed
    /\ AuxUnchanged

FollowChainInfo_NoHashCheck(i, outs) ==
    /\ ~crashed
    /\ inv[i].pc = "f_info"
    /\ LET r == chainInfoFromPeers(outs)
           s == [inv[i] EXCEPT !.info = r.info]
       IN  inv' = [inv EXCEPT ![i] =
                IF r.err # "nil" THEN Exit(s, "errChainInfo")
                ELSE IF ~CompareBeaconIDs(NodeBeaconID, InfoID(r.info))
                     THEN Exit(s, "errBeaconID")
                ELSE [s EXCEPT !.pc = "f_store"]]
    /\ UNCHANGED <<syncerCancel, crashed>>
    /\ AuxUnchanged

\* lines 298-322: the peers, their chain info, its hash and beacon identifier
FollowChainInfo(i, outs) ==
    /\ ~crashed
    /\ inv[i].pc = "f_info"
    /\ LET r == chainInfoFromPeers(outs)
           s == [inv[i] EXCEPT !.info = r.info]
       IN  inv' = [inv EXCEPT ![i] =
                IF r.err # "nil" THEN Exit(s, "errChainInfo")
                ELSE IF InfoHash(r.info) # s.hash THEN Exit(s, "errHashMismatch")
                ELSE IF ~CompareBeaconIDs(NodeBeaconID, InfoID(r.info))
                     THEN Exit(s, "errBeaconID")
                ELSE [s EXCEPT !.pc = "f_store"]]
    /\ UNCHANGED <<syncerCancel, crashed>>
    /\ AuxUnchanged

\* lines 324-328: bp.createDBStore
FollowCreateStore(i, ok) ==
    /\ ~crashed
    /\ inv[i].pc = "f_store"
    /\ inv' = [inv EXCEPT ![i] =
            IF ok THEN [@ EXCEPT !.pc = "f_genesis", !.store = "open"]
                  ELSE Exit(@, "errCreateStore")]
    /\ UNCHANGED <<syncerCancel, crashed>>
    /\ AuxUnchanged

\* lines 331-335: the genesis beacon; the store is closed when Put fails
FollowPutGenesis(i, ok) ==
    /\ ~crashed
    /\ inv[i].pc = "f_genesis"
    /\ inv' = [inv EXCEPT ![i] =
            IF ok THEN [@ EXCEPT !.pc = "f_scheme"]
                  ELSE Exit([@ EXCEPT !.store = "closed"], "errPutGenesis")]
    /\ UNCHANGED <<syncerCancel, crashed>>
    /\ AuxUnchanged

\* lines 338-345: crypto.SchemeFromName and beacon.NewSchemeStore; on either
\* error the function returns with the store left open
FollowSchemeStore(i, res) ==
    /\ ~crashed
    /\ inv[i].pc = "f_scheme"
    /\ inv' = [inv EXCEPT ![i] =
            IF res = "ok" THEN [@ EXCEPT !.pc = "f_callback"] ELSE Exit(@, res)]
    /\ UNCHANGED <<syncerCancel, crashed>>
    /\ AuxUnchanged

followTarget_AlwaysUpTo(currentRound, upTo) ==
    IF upTo # 0 THEN upTo ELSE currentRound

\* lines 542-545: the target of the follow callback, from the current
\* wall-clock round of the chain and the requested bound
followTarget(currentRound, upTo) ==
    IF upTo # 0 /\ upTo < currentRound THEN upTo ELSE currentRound

\* line 548: the mode handed to sendPlainProgressCallback
followKeepFollowing_Never(upTo) == FALSE

followKeepFollowing(upTo) == upTo = 0

\* lines 348-355: the callback store, the progress callback of
\* sendProgressCallback (lines 533-558) and its registration
FollowAddCallback(i, currentRound) ==
    /\ ~crashed
    /\ inv[i].pc = "f_callback"
    /\ inv' = [inv EXCEPT ![i] =
            [@ EXCEPT !.pc = "f_syncmgr",
                      !.defers = <<"removeCallback", "cbStoreClose">> \o @,
                      !.currentRound = currentRound,
                      !.targ = followTarget(currentRound, inv[i].upTo),
                      !.keepFollowing = followKeepFollowing(inv[i].upTo),
                      !.done = 0,
                      !.cbAdded = TRUE]]
    /\ UNCHANGED <<syncerCancel, crashed>>
    /\ AuxUnchanged

\* lines 357-371: beacon.NewSyncManager, go syncer.Run(), defer syncer.Stop()
FollowNewSyncManager(i, ok) ==
    /\ ~crashed
    /\ inv[i].pc = "f_syncmgr"
    /\ inv' = [inv EXCEPT ![i] =
            IF ok THEN [@ EXCEPT !.pc = "f_loop", !.syncer = "running",
                                 !.defers = <<"syncerStop">> \o @]
                  ELSE Exit(@, "errSyncManager")]
    /\ UNCHANGED <<syncerCancel, crashed>>
    /\ AuxUnchanged

\* lines 376-380: a new attempt: a fresh sub-scope of ctx and the goroutine
\* that runs syncer.Sync and sends its result on errChan
FollowStartSync(i) ==
    /\ ~crashed
    /\ inv[i].pc = "f_loop"
    /\ inv' = [inv EXCEPT ![i] =
            [@ EXCEPT !.pc = "f_select", !.attempts = @ + 1,
                      !.syncDone = inv[i].ctxDone, !.sync = "running"]]
    /\ UNCHANGED <<syncerCancel, crashed>>
    /\ AuxUnchanged

FollowSelectDone_NotWaiting(i) ==
    /\ ~crashed
    /\ inv[i].pc = "f_select"
    /\ inv' = [inv EXCEPT ![i] = Exit([@ EXCEPT !.syncDone = TRUE], "ok")]
    /\ UNCHANGED <<syncerCancel, crashed>>
    /\ AuxUnchanged

\* lines 382-384: done is closed
FollowSelectDone(i) ==
    /\ ~crashed
    /\ inv[i].pc = "f_select"
    /\ inv[i].done >= 1
    /\ inv' = [inv EXCEPT ![i] = Exit([@ EXCEPT !.syncDone = TRUE], "ok")]
    /\ UNCHANGED <<syncerCancel, crashed>>
    /\ AuxUnchanged

\* lines 385-387: ctx is cancelled
FollowSelectCancelled(i) ==
    /\ ~crashed
    /\ inv[i].pc = "f_select"
    /\ inv[i].ctxDone
    /\ inv' = [inv EXCEPT ![i] = Exit([@ EXCEPT !.syncDone = TRUE], "errCancelled")]
    /\ UNCHANGED <<syncerCancel, crashed>>
    /\ AuxUnchanged

\* A receive from ch can proceed: a goroutine is sending on it, and ch is
\* not the nil channel, on which every send and receive blocks for ever.
CanReceive(ch, sending) == ch # "nil" /\ sending

\* lines 388-393: the result of the attempt arrives on errChan; the sub-scope
\* is cancelled and, a period later, the loop starts the next attempt.
\* With errChan nil this case is never ready, so it is no step of Next.
FollowSelectErr(i) ==
    /\ ~crashed
    /\ inv[i].pc = "f_select"
    /\ CanReceive(ErrChan, inv[i].sync \in {"sendErr", "sendNil"})
    /\ inv' = [inv EXCEPT ![i] = [@ EXCEPT !.syncDone = TRUE, !.sync = "none",
                                           !.pc = "f_loop"]]
    /\ UNCHANGED <<syncerCancel, crashed>>
    /\ AuxUnchanged

\* syncer.Sync (line 379) stores the next round of the chain in cbStore, which
\* calls the registered callback cb(b, false) of lines 549-555.  A bounded
\* request (upTo # 0) is not synced past upTo.
SyncStoreRound(i) ==
    /\ ~crashed
    /\ inv[i].sync = "running"
    /\ inv[i].inSend = "no"
    /\ inv[i].store = "open"
    /\ inv[i].lastRound < MaxRound
    /\ inv[i].upTo = 0 \/ inv[i].lastRound < inv[i].upTo
    /\ LET s == [inv[i] EXCEPT !.lastRound = @ + 1]
       IN  inv' = [inv EXCEPT ![i] =
                      IF s.cbAdded THEN CallCb(s, s.lastRound, s.targ, "follow")
                      ELSE s]
    /\ UNCHANGED <<syncerCancel, crashed>>
    /\ AuxUnchanged

\* The stream.Send of the callback call under way returns, with or without
\* an error (lines 582-592); the call may outlive the handler.
CbSendReturns(i, sendOk) ==
    /\ ~crashed
    /\ inv[i].inSend # "no"
    /\ inv' = [inv EXCEPT ![i] = IF inv[i].pc = "idle" THEN IdleSession
                                 ELSE CbSendReturn(@, sendOk)]
    /\ crashed' = CbPanics(inv[i])
    /\ UNCHANGED syncerCancel
    /\ AuxUnchanged

\* syncer.Sync returns, with an error or with nil; the goroutine then sends
\* the result on errChan (line 379).
SyncReturn(i, res) ==
    /\ ~crashed
    /\ inv[i].sync = "running"
    /\ inv[i].inSend = "no"
    /\ inv' = [inv EXCEPT ![i] = [@ EXCEPT !.sync = res]]
    /\ UNCHANGED <<syncerCancel, crashed>>
    /\ AuxUnchanged

\* line 371, deferred: syncer.Stop()
DeferSyncerStop(i) ==
    /\ ~crashed
    /\ inv[i].pc = "exit"
    /\ inv[i].defers # <<>> /\ Head(inv[i].defers) = "syncerStop"
    /\ inv' = [inv EXCEPT ![i] = [@ EXCEPT !.defers = Tail(@), !.syncer = "stopped"]]
    /\ UNCHANGED <<syncerCancel, crashed>>
    /\ AuxUnchanged

\* line 355, deferred: cbStore.RemoveCallback(addr)
DeferRemoveCallback(i) ==
    /\ ~crashed
    /\ inv[i].pc = "exit"
    /\ inv[i].defers # <<>> /\ Head(inv[i].defers) = "removeCallback"
    /\ inv' = [inv EXCEPT ![i] = [@ EXCEPT !.defers = Tail(@), !.cbAdded = FALSE]]
    /\ UNCHANGED <<syncerCancel, crashed>>
    /\ AuxUnchanged

\* line 349, deferred: cbStore.Close(), which closes the store it wraps
DeferCbStoreClose(i) ==
    /\ ~crashed
    /\ inv[i].pc = "exit"
    /\ inv[i].defers # <<>> /\ Head(inv[i].defers) = "cbStoreClose"
    /\ inv' = [inv EXCEPT ![i] = [@ EXCEPT !.defers = Tail(@), !.store = "closed"]]
    /\ UNCHANGED <<syncerCancel, crashed>>
    /\ AuxUnchanged

(***************************************************************************)
(* StartCheckChain (lines 399-491).                                        *)
(***************************************************************************)
\* lines 399-433: the precondition on bp.beacon, the guard, and the callback
\* of the validation pass (its done channel is dropped).  The validation
\* reports against upTo, or against the last stored round when upTo is 0.
CheckAcquire(i, nodes, upTo, hasBeacon) ==
    /\ ~crashed /\ NoneReturned
    /\ Free(i)
    /\ IF ~hasBeacon
       THEN /\ inv' = [inv EXCEPT ![i] = [IdleSession EXCEPT !.pc = "returned",
                                                            !.ret = "errNoBeacon"]]
            /\ UNCHANGED syncerCancel
       ELSE tryAcquire(i, [IdleSession EXCEPT !.pc = "c_validate", !.kind = "check",
                               !.nodes = nodes,
                               !.upTo = upTo,
                               !.targ = IF upTo = 0 THEN MaxRound ELSE upTo])
    /\ UNCHANGED crashed
    /\ AuxUnchanged

\* bp.beacon.ValidateChain (line 446) reports the next round it has scanned
ValidateProgress(i) ==
    /\ ~crashed
    /\ inv[i].pc = "c_validate"
    /\ inv[i].inSend = "no"
    /\ inv[i].lastRound < inv[i].targ
    /\ LET s == [inv[i] EXCEPT !.lastRound = @ + 1]
       IN  inv' = [inv EXCEPT ![i] = CallCb(s, s.lastRound, s.targ, "validate")]
    /\ UNCHANGED <<syncerCancel, crashed>>
    /\ AuxUnchanged

\* lines 446-449: ValidateChain returns an error, or n faulty beacons
ValidateReturn(i, ok, n) ==
    /\ ~crashed
    /\ inv[i].pc = "c_validate"
    /\ inv[i].inSend = "no"
    /\ inv' = [inv EXCEPT ![i] =
            IF ok THEN [@ EXCEPT !.pc = "c_reset", !.faulty = n]
                  ELSE Exit(@, "errValidate")]
    /\ UNCHANGED <<syncerCancel, crashed>>
    /\ AuxUnchanged

CheckSendReset_OnlyWhenFaulty(i) ==
    /\ ~crashed
    /\ inv[i].pc = "c_reset"
    /\ inv' = [inv EXCEPT ![i] =
            IF inv[i].faulty = 0 THEN [@ EXCEPT !.pc = "c_dryrun"]
            ELSE [@ EXCEPT !.pc = "c_reset_send",
                           !.stream = Append(@, Msg(0, inv[i].faulty, "reset"))]]
    /\ UNCHANGED <<syncerCancel, crashed>>
    /\ AuxUnchanged

\* lines 453-456: the reset message is handed to stream.Send
CheckSendReset(i) ==
    /\ ~crashed
    /\ inv[i].pc = "c_reset"
    /\ inv' = [inv EXCEPT ![i] =
            [@ EXCEPT !.pc = "c_reset_send",
                      !.stream = Append(@, Msg(0, inv[i].faulty, "reset"))]]
    /\ UNCHANGED <<syncerCancel, crashed>>
    /\ AuxUnchanged

\* lines 453-459: that Send returns; an error is logged
CheckResetSent(i, sendOk) ==
    /\ ~crashed
    /\ inv[i].pc = "c_reset_send"
    /\ inv' = [inv EXCEPT ![i] = [@ EXCEPT !.pc = "c_dryrun", !.sendErr = ~sendOk]]
    /\ UNCHANGED <<syncerCancel, crashed>>
    /\ AuxUnchanged

\* line 462
dryRun(nodes) == Len(nodes) = 1 /\ nodes[1] = SelfAddr

\* line 463
skipCorrection_IgnoreDryRun(s) == s.faulty = 0

skipCorrection(s) == s.faulty = 0 \/ dryRun(s.nodes)

\* lines 462-472: the dry-run decision; otherwise, a second later, the
\* callback and done channel of the correction pass
CheckDryRun(i) ==
    /\ ~crashed
    /\ inv[i].pc = "c_dryrun"
    /\ inv' = [inv EXCEPT ![i] =
            IF skipCorrection(@) THEN Exit(@, "ok")
            ELSE [@ EXCEPT !.pc = "c_correct", !.done = 0, !.lastRound = 0,
                           !.targ = inv[i].faulty]]
    /\ UNCHANGED <<syncerCancel, crashed>>
    /\ AuxUnchanged

\* line 477: bp.beacon.CorrectChain is called with the faulty beacons and peers
CheckCallCorrect(i) ==
    /\ ~crashed
    /\ inv[i].pc = "c_correct"
    /\ inv' = [inv EXCEPT ![i] = [@ EXCEPT !.pc = "c_correcting",
                                           !.corrections = @ + 1]]
    /\ UNCHANGED <<syncerCancel, crashed>>
    /\ AuxUnchanged

\* CorrectChain reports the next corrected beacon out of len(faultyBeacons)
CorrectProgress(i) ==
    /\ ~crashed
    /\ inv[i].pc = "c_correcting"
    /\ inv[i].inSend = "no"
    /\ inv[i].lastRound < inv[i].targ
    /\ LET s == [inv[i] EXCEPT !.lastRound = @ + 1]
       IN  inv' = [inv EXCEPT ![i] = CallCb(s, s.lastRound, s.targ, "correct")]
    /\ UNCHANGED <<syncerCancel, crashed>>
    /\ AuxUnchanged

CorrectReturn_ReturnsNil(i, ok) ==
    /\ ~crashed
    /\ inv[i].pc = "c_correcting"
    /\ inv[i].inSend = "no"
    /\ inv' = [inv EXCEPT ![i] =
            IF ok THEN Exit(@, "ok") ELSE Exit(@, "errCorrect")]
    /\ UNCHANGED <<syncerCancel, crashed>>
    /\ AuxUnchanged

\* lines 477-480: CorrectChain returns
CorrectReturn(i, ok) ==
    /\ ~crashed
    /\ inv[i].pc = "c_correcting"
    /\ inv[i].inSend = "no"
    /\ inv' = [inv EXCEPT ![i] =
            IF ok THEN [@ EXCEPT !.pc = "c_select"] ELSE Exit(@, "errCorrect")]
    /\ UNCHANGED <<syncerCancel, crashed>>
    /\ AuxUnchanged

\* lines 484-486
CheckSelectDone(i) ==
    /\ ~crashed
    /\ inv[i].pc = "c_select"
    /\ inv[i].done >= 1
    /\ inv' = [inv EXCEPT ![i] = Exit(@, "ok")]
    /\ UNCHANGED <<syncerCancel, crashed>>
    /\ AuxUnchanged

\* lines 487-489
CheckSelectCancelled(i) ==
    /\ ~crashed
    /\ inv[i].pc = "c_select"
    /\ inv[i].ctxDone
    /\ inv' = [inv EXCEPT ![i] = Exit(@, "errCancelled")]
    /\ UNCHANGED <<syncerCancel, crashed>>
    /\ AuxUnchanged

(***************************************************************************)
(* The callers.                                                            *)
(***************************************************************************)
\* The caller cancels the context of its request (the client goes away):
\* every context derived from it is cancelled with it.
CallerCancel(i) ==
    /\ ~crashed
    /\ Active(i)
    /\ ~inv[i].callerDone
    /\ inv' = [inv EXCEPT ![i] = [Cancelled(@) EXCEPT !.callerDone = TRUE]]
    /\ UNCHANGED <<syncerCancel, crashed>>
    /\ AuxUnchanged

\* The caller has its result; the handler's locals are gone.  A callback call
\* still waiting in stream.Send (made by the sync goroutine, which the
\* handler's return does not stop) lives on with what it will do when the
\* Send returns.
Forget(i) ==
    /\ ~crashed
    /\ inv[i].pc = "returned"
    /\ inv' = [inv EXCEPT ![i] =
            [IdleSession EXCEPT !.inSend = inv[i].inSend,
                                !.done = IF inv[i].inSend = "close" THEN inv[i].done ELSE 0]]
    /\ UNCHANGED <<syncerCancel, crashed>>
    /\ AuxUnchanged

(***************************************************************************)
(* The node: concurrent follow and check invocations.                      *)
(***************************************************************************)
IdleVgt == [old |-> NilGroup, new |-> NilGroup, now |-> 0, res |-> "none"]
IdleCi == [outs |-> <<>>, called |-> FALSE,
           res |-> [info |-> NilInfo, err |-> "none", lastErr |-> "nil"]]
IdleProg == [keepFollowing |-> FALSE, done |-> 0, inSend |-> "no", calls |-> 0, sends |-> 0,
             target |-> 0,
             last |-> [curr |-> 0, targ |-> 0, out |-> "none", closed |-> FALSE],
             lastSent |-> -1, callsMono |-> TRUE, sendsMono |-> TRUE]

NodeInit ==
    /\ syncerCancel = NoHandle
    /\ crashed = FALSE
    /\ inv = [i \in Procs |-> IdleSession]

Init == NodeInit /\ vgt = IdleVgt /\ ci = IdleCi /\ prog = IdleProg

PeerAnswers(n) == [1..n -> PeerOutcomes]

Next ==
    \E i \in Procs :
        \/ \E nodes \in NodeLists, upTo \in Rounds, hash \in Hashes :
               FollowAcquire(i, nodes, upTo, hash)
        \/ \E outs \in PeerAnswers(Len(PeersOf(inv[i].nodes))) : FollowChainInfo(i, outs)
        \/ \E ok \in BOOLEAN : FollowCreateStore(i, ok)
        \/ \E ok \in BOOLEAN : FollowPutGenesis(i, ok)
        \/ \E res \in {"ok", "errScheme", "errSchemeStore"} : FollowSchemeStore(i, res)
        \/ \E r \in Rounds : FollowAddCallback(i, r)
        \/ \E ok \in BOOLEAN : FollowNewSyncManager(i, ok)
        \/ FollowStartSync(i)
        \/ FollowSelectDone(i)
        \/ FollowSelectCancelled(i)
        \/ SyncStoreRound(i)
        \/ \E sendOk \in BOOLEAN : CbSendReturns(i, sendOk)
        \/ \E res \in {"sendErr", "sendNil"} : SyncReturn(i, res)
        \/ DeferSyncerStop(i)
        \/ DeferRemoveCallback(i)
        \/ DeferCbStoreClose(i)
        \/ DeferRelease(i)
        \/ \E nodes \in NodeLists, upTo \in Rounds, hasBeacon \in BOOLEAN :
               CheckAcquire(i, nodes, upTo, hasBeacon)
        \/ ValidateProgress(i)
        \/ \E ok \in BOOLEAN, n \in 0..MaxFaulty : ValidateReturn(i, ok, n)
        \/ CheckSendReset(i)
        \/ \E sendOk \in BOOLEAN : CheckResetSent(i, sendOk)
        \/ CheckDryRun(i)
        \/ CheckCallCorrect(i)
        \/ CorrectProgress(i)
        \/ \E ok \in BOOLEAN : CorrectReturn(i, ok)
        \/ CheckSelectDone(i)
        \/ CheckSelectCancelled(i)
        \/ CallerCancel(i)
        \/ Forget(i)

Spec == Init /\ [][Next]_vars

\* The Go scheduler runs every goroutine that can run: a handler whose select
\* has a ready case takes one, and a returning handler runs its deferred calls.
HandlerFairness ==
    \A i \in Procs :
        /\ WF_vars(FollowSelectDone(i))
        /\ WF_vars(FollowSelectCancelled(i))
        /\ WF_vars(CheckSelectDone(i))
        /\ WF_vars(CheckSelectCancelled(i))
        /\ WF_vars(DeferSyncerStop(i))
        /\ WF_vars(DeferRemoveCallback(i))
        /\ WF_vars(DeferCbStoreClose(i))
        /\ WF_vars(DeferRelease(i))

SpecFair == Spec /\ HandlerFairness

(***************************************************************************)
(* validateGroupTransition on its own: every pair of group pointers and    *)
(* every clock reading.                                                    *)
(***************************************************************************)
InitVgt ==
    /\ NodeInit /\ ci = IdleCi /\ prog = IdleProg
    /\ vgt \in [old : GroupPtrs, new : GroupPtrs, now : Times, res : {"none"}]

ValidateGroupTransitionCall ==
    /\ vgt.res = "none"
    /\ vgt' = [vgt EXCEPT !.res = validateGroupTransition(vgt.old, vgt.new, vgt.now)]
    /\ UNCHANGED <<syncerCancel, crashed, inv, ci, prog>>

SpecVgt == InitVgt /\ [][ValidateGroupTransitionCall]_vars

(***************************************************************************)
(* chainInfoFromPeers on its own: every list of at most MaxPeers peers,    *)
(* each answering in one of the ways of PeerOutcomes.                      *)
(***************************************************************************)
PeerLists == UNION {PeerAnswers(n) : n \in 0..MaxPeers}

InitCi ==
    /\ NodeInit /\ vgt = IdleVgt /\ prog = IdleProg
    /\ ci \in {[IdleCi EXCEPT !.outs = o] : o \in PeerLists}

ChainInfoFromPeersCall ==
    /\ ~ci.called
    /\ ci' = [ci EXCEPT !.called = TRUE, !.res = chainInfoFromPeers(ci.outs)]
    /\ UNCHANGED <<syncerCancel, crashed, inv, vgt, prog>>

SpecCi == InitCi /\ [][ChainInfoFromPeersCall]_vars

(***************************************************************************)
(* A progress reporter of sendPlainProgressCallback on its own, called     *)
(* either with arbitrary arguments (at most MaxCalls times) or by a        *)
(* catch-up that reports the rounds 1, 2, ... up to a fixed target.        *)
(***************************************************************************)
\* the arguments of the arbitrary calls, around the skip-threshold
CbRounds == {0, 1, LogsToSkip, LogsToSkip + 1, 2 * LogsToSkip + 1}
\* the targets of the catch-up
ScanTargets == {LogsToSkip, 10 * LogsToSkip}

\* The reporter and its history after a call cb(curr, targ) has run up to
\* its stream.Send (lines 572-585): suppressed and returned, or waiting in Send.
ProgStep(p, curr, targ) ==
    LET e == plainProgressCb(p.keepFollowing, p.done >= 1, curr, targ)
    IN  [p EXCEPT !.calls = @ + 1,
                  !.last = [curr |-> curr, targ |-> targ,
                            out |-> IF ~e.send THEN "suppressed" ELSE "sending",
                            closed |-> FALSE],
                  !.callsMono = @ /\ (p.calls = 0 \/ p.last.curr <= curr),
                  !.sends = IF e.send THEN @ + 1 ELSE @,
                  !.lastSent = IF e.send THEN e.Current ELSE @,
                  !.sendsMono = IF e.send THEN @ /\ p.lastSent <= e.Current ELSE @,
                  !.inSend = IF ~e.send THEN "no"
                             ELSE IF e.close THEN "close" ELSE "plain"]

\* The reporter after that Send has returned (lines 586-592).
ProgSendReturn(p, sendOk) ==
    [p EXCEPT !.last.out = IF sendOk THEN "sent" ELSE "sendErr",
              !.last.closed = (p.inSend = "close"),
              !.done = IF p.inSend = "close" THEN @ + 1 ELSE @,
              !.inSend = "no"]

InitProg ==
    /\ NodeInit /\ vgt = IdleVgt /\ ci = IdleCi
    /\ prog \in {[IdleProg EXCEPT !.keepFollowing = k, !.target = t] :
                    k \in BOOLEAN, t \in {0} \cup ScanTargets}

\* an arbitrary call, made when the call before it has returned; a second
\* close(done) has ended the process
ProgCall(curr, targ) ==
    /\ prog.target = 0
    /\ prog.calls < MaxCalls
    /\ prog.done < 2 /\ prog.inSend = "no"
    /\ prog' = ProgStep(prog, curr, targ)
    /\ UNCHANGED <<syncerCancel, crashed, inv, vgt, ci>>

\* the next call of the catch-up
ScanCall ==
    /\ prog.target # 0
    /\ prog.calls < prog.target
    /\ prog.done < 2 /\ prog.inSend = "no"
    /\ prog' = ProgStep(prog, prog.calls + 1, prog.target)
    /\ UNCHANGED <<syncerCancel, crashed, inv, vgt, ci>>

\* the stream.Send of the call under way returns
ProgSendReturns(sendOk) ==
    /\ prog.inSend # "no"
    /\ prog' = ProgSendReturn(prog, sendOk)
    /\ UNCHANGED <<syncerCancel, crashed, inv, vgt, ci>>

NextProg ==
    \/ \E curr \in CbRounds, targ \in CbRounds : ProgCall(curr, targ)
    \/ ScanCall
    \/ \E sendOk \in BOOLEAN : ProgSendReturns(sendOk)

SpecProg == InitProg /\ [][NextProg]_vars

(***************************************************************************)
(* The claims.                                                             *)
(***************************************************************************)
Acquired(i) ==
    inv[i].pc # "idle" /\ inv[i].ret \notin {"errAlreadySyncing", "errNoBeacon"}

\* Invocation i starts in this step.
Starts(i) == inv[i].pc = "idle" /\ inv'[i].pc # "idle"

\* C1: in every interleaving of follow and check invocations at most one
\* invocation holds the sync guard, and the stored handle is the holder's;
\* an invocation that starts while a handle is stored returns without
\* acquiring (with the "syncing is already in progress" error once it has
\* reached the guard) and changes neither the stored handle nor any other
\* invocation, so the running session is neither replaced, cancelled nor
\* cleared.
C1_SingleFlight ==
    /\ [](\A i, j \in Procs : Holds(i) /\ Holds(j) => i = j)
    /\ [](\A i \in Procs : Holds(i) => syncerCancel = i)
    /\ [][\A i \in Procs :
            /\ (Starts(i) /\ syncerCancel # NoHandle) =>
                   /\ inv'[i].pc = "returned"
                   /\ inv'[i].ret \in {"errAlreadySyncing", "errNoBeacon"}
            /\ (Starts(i) /\ inv'[i].ret = "errAlreadySyncing") =>
                   /\ syncerCancel # NoHandle
                   /\ syncerCancel' = syncerCancel
                   /\ \A j \in Procs \ {i} : inv'[j] = inv[j]]_vars

\* C1 witness: a follow session waits in its select while another
\* invocation has been turned away with the contention error.
C1_Witness ==
    \E i, j \in Procs :
        /\ i # j
        /\ inv[i].pc = "f_select" /\ syncerCancel = i /\ ~inv[i].ctxDone
        /\ inv[j].pc = "returned" /\ inv[j].ret = "errAlreadySyncing"

\* C2: an invocation that acquired the guard has, when it returns on any
\* exit path, run all its deferred calls, had its session context cancelled
\* and left no handle stored, so the guard is free for the next invocation;
\* and the guard is never free while a session that acquired it has a
\* context that is not cancelled (cancel comes before clear).
C2_ReleasedOnEveryExit ==
    \A i \in Procs :
        /\ (inv[i].pc = "returned" /\ Acquired(i)) =>
               /\ inv[i].ctxDone
               /\ inv[i].defers = <<>>
               /\ syncerCancel = NoHandle
        /\ (Acquired(i) /\ ~inv[i].ctxDone) => syncerCancel = i

\* C2 witness: a check invocation has returned a correction error, its
\* caller never cancelled, and the guard is free.
C2_Witness ==
    \E i \in Procs :
        /\ inv[i].pc = "returned" /\ inv[i].ret = "errCorrect"
        /\ ~inv[i].callerDone /\ inv[i].ctxDone
        /\ syncerCancel = NoHandle

\* C3: when the Sync of a follow attempt has ended with an error and the
\* controller waits in its select, the controller can take the error case
\* (observe the error, cancel the sub-scope and start the next attempt).
C3_ErrorObserved ==
    \A i \in Procs :
        (inv[i].pc = "f_select" /\ inv[i].sync = "sendErr") => ENABLED FollowSelectErr(i)

\* C4: on a reporter made with keepFollowing = false the completion signal is
\* closed at most once, whatever calls follow the one that closed it.
C4_ClosedAtMostOnce == ~prog.keepFollowing => prog.done <= 1

\* C5: in a follow with upTo = 0 the reporter is in continuous mode, no
\* callback call closes done, and the invocation never returns success: once
\* its sync loop is entered it returns only the cancellation error.
C5_ContinuousNeverCompletes ==
    \A i \in Procs :
        (inv[i].kind = "follow" /\ inv[i].upTo = 0) =>
            /\ inv[i].done = 0
            /\ inv[i].ret # "ok"
            /\ inv[i].pc \in {"f_syncmgr", "f_loop", "f_select"} => inv[i].keepFollowing
            /\ (inv[i].attempts > 0 /\ inv[i].pc \in {"exit", "returned"}) =>
                   inv[i].ret = "errCancelled"

\* C5 witness: a follow with upTo = 0 whose callback was called with
\* current = target > 0 and then with current > target.
C5_Witness ==
    \E i \in Procs :
        /\ inv[i].kind = "follow" /\ inv[i].upTo = 0 /\ inv[i].targ > 0
        /\ Len(inv[i].stream) >= 2
        /\ inv[i].stream[1].Current = inv[i].targ
        /\ inv[i].stream[2].Current > inv[i].targ

\* C6 as stated: the current values of the emitted messages never decrease.
C6_EmittedNonDecreasing == prog.sendsMono

\* C6 amended: an emitted message carries the current value of its call
\* unchanged, so the emitted current values are non-decreasing whenever the
\* current values of the calls are.
C6_ForwardsInCallOrder ==
    /\ prog.last.out \in {"sending", "sent", "sendErr"} => prog.lastSent = prog.last.curr
    /\ prog.callsMono => prog.sendsMono

\* C6 witness: three calls with non-decreasing current, the second suppressed
\* and the third with current above its target.
C6_Witness ==
    /\ prog.calls = 3 /\ prog.sends = 2 /\ prog.callsMono
    /\ prog.last.curr > prog.last.targ

Max2(a, b) == IF a > b THEN a ELSE b

\* the suppression rule of C7 on the arguments of a call
C7_Rule(curr, targ) ==
    LET t == Max2(curr, targ)
    IN  t > LogsToSkip /\ t - curr > LogsToSkip /\ curr % LogsToSkip # 0

\* C7 as stated, for the catch-up to target = 10*S: the number of emitted
\* messages is of the order of target/S (here: within ten times target/S).
C7_EmitsOrderTargetOverS ==
    (prog.target = 10 * LogsToSkip /\ prog.calls = prog.target) =>
        prog.sends <= 10 * (prog.target \div LogsToSkip)

\* C7 amended: a call is suppressed exactly when the rule holds; the catch-up
\* to target = 10*S emits S + 9 messages (the 8 aligned rounds S, ..., 8S and
\* each of the last S + 1 calls), and the final call of a catch-up is emitted.
C7_RateLimit ==
    /\ prog.last.out # "none" =>
           (prog.last.out = "suppressed" <=> C7_Rule(prog.last.curr, prog.last.targ))
    /\ (prog.target # 0 /\ prog.calls = prog.target) => prog.last.out # "suppressed"
    /\ (prog.target = 10 * LogsToSkip /\ prog.calls = prog.target) =>
           prog.sends = LogsToSkip + 9

\* C7 witness: the catch-up to 10*S has made its final call.
C7_Witness == prog.target = 10 * LogsToSkip /\ prog.calls = prog.target

\* The validation pass of check invocation i returned without error.
Validated(i) ==
    /\ inv[i].kind = "check"
    /\ \/ inv[i].pc = "c_reset"
       \/ \E k \in 1..Len(inv[i].stream) : inv[i].stream[k].phase = "reset"

\* C8: a check whose validation found no faulty beacon, or whose request
\* lists only the node's own address, never calls CorrectChain and, when it
\* returns, returns success.
C8_DryRunShortCircuit ==
    \A i \in Procs :
        (Validated(i) /\ (inv[i].faulty = 0 \/ inv[i].nodes = <<SelfAddr>>)) =>
            /\ inv[i].corrections = 0
            /\ inv[i].pc \in {"c_reset", "c_reset_send", "c_dryrun", "exit", "returned"}
            /\ inv[i].pc \in {"exit", "returned"} => inv[i].ret = "ok"

\* C8 witness: a dry run that found faulty beacons has returned success.
C8_Witness ==
    \E i \in Procs :
        /\ inv[i].kind = "check" /\ inv[i].pc = "returned" /\ inv[i].ret = "ok"
        /\ inv[i].nodes = <<SelfAddr>> /\ inv[i].faulty > 0

\* the five checks of the reference, in order, with the error of each
C9_Checks(old, new, now) ==
    << <<old.GenesisTime = new.GenesisTime, "errGenesisTime">>,
       <<old.Period = new.Period, "errPeriod">>,
       <<CompareBeaconIDs(old.ID, new.ID), "errID">>,
       <<old.GenesisSeed = new.GenesisSeed, "errSeed">>,
       <<new.TransitionTime >= now, "errTransitionPast">> >>

C9_Reference(old, new, now) ==
    IF old.isNil THEN (IF new.isNil THEN "errNilGroup" ELSE "ok")
    ELSE LET c == C9_Checks(old, new, now)
             failing == {k \in 1..5 : ~c[k][1]}
         IN  IF failing = {} THEN "ok"
             ELSE c[CHOOSE k \in failing : \A m \in failing : k <= m][2]

\* C9: validateGroupTransition(old, new) equals the reference (old nil: fail
\* iff new is nil; otherwise the error of the first failing of the five
\* checks, success iff all hold), for every new group that is not nil when
\* old is not.
C9_MatchesReference ==
    (vgt.res # "none" /\ (vgt.old.isNil \/ ~vgt.new.isNil)) =>
        vgt.res = C9_Reference(vgt.old, vgt.new, vgt.now)

\* C9 witness: the genesis seeds differ and the transition time is past;
\* the call has returned the seed error, the earlier of the two.
C9_Witness ==
    /\ vgt.res = "errSeed"
    /\ ~vgt.old.isNil /\ vgt.new.TransitionTime < vgt.now

C10_OkPeers == {k \in 1..Len(ci.outs) : ci.outs[k].kind = "ok"}

\* C10: chainInfoFromPeers fails iff no peer yields a parseable response, and
\* otherwise returns the response of the last peer that did.
C10_LastGoodWins ==
    ci.called =>
        /\ ci.res.err # "nil" <=> C10_OkPeers = {}
        /\ C10_OkPeers # {} =>
               ci.res.info = ci.outs[CHOOSE k \in C10_OkPeers :
                                        \A m \in C10_OkPeers : m <= k].info

\* Follow invocation i has returned the cancellation error with its sync
\* sub-scope cancelled and the guard released.
C11_ReturnedCancelled(i) ==
    /\ inv[i].pc = "returned" /\ inv[i].ret = "errCancelled"
    /\ inv[i].syncDone
    /\ syncerCancel = NoHandle

\* C11, for the sessions whose completion signal is not raised: a follow
\* session whose context is cancelled while it waits in its select eventually
\* returns the cancellation error, with the sub-scope of its sync attempt
\* cancelled and the guard released.
C11_CancelEndsWait ==
    \A i \in Procs :
        (inv[i].kind = "follow" /\ inv[i].pc = "f_select" /\ inv[i].ctxDone)
            ~> (C11_ReturnedCancelled(i) \/ inv[i].done >= 1)

\* C12: a follow invocation that has entered its sync loop returns only
\* success, and then the completion signal was raised, or the cancellation
\* error, and then its caller cancelled; the error of a sync attempt is not
\* its return value, also when an attempt has ended with one.
C12_LoopExits ==
    \A i \in Procs :
        (inv[i].kind = "follow" /\ inv[i].attempts > 0
            /\ inv[i].pc \in {"exit", "returned"}) =>
               /\ inv[i].ret \in {"ok", "errCancelled"}
               /\ inv[i].ret = "ok" => inv[i].done >= 1
               /\ inv[i].ret = "errCancelled" => inv[i].callerDone

\* C12 witness: a sync attempt ended with an error and the invocation has
\* returned the cancellation error.
C12_Witness ==
    \E i \in Procs :
        /\ inv[i].kind = "follow" /\ inv[i].pc = "returned"
        /\ inv[i].sync = "sendErr" /\ inv[i].ret = "errCancelled"

\* C13: when a follow invocation that created its store has returned, the
\* store is closed and no progress callback is registered.
C13_ResourcesClosedOnExit ==
    \A i \in Procs :
        (inv[i].kind = "follow" /\ inv[i].pc = "returned" /\ inv[i].store # "none") =>
            inv[i].store = "closed" /\ ~inv[i].cbAdded

\* The bootstrap of follow invocation i has fetched its chain info and one of
\* the three checks fails on it: no info, another hash than the request's,
\* or a beacon identifier that is not the node's.
C14_BootstrapFails(i) ==
    /\ inv[i].kind = "follow" /\ inv[i].pc # "f_info"
    /\ \/ inv[i].info = NilInfo
       \/ InfoHash(inv[i].info) # inv[i].hash
       \/ ~CompareBeaconIDs(NodeBeaconID, InfoID(inv[i].info))

\* C14: a follow invocation whose bootstrap fails on the chain info returns
\* an error (the error of the first failing check), has created no store,
\* registered no callback, made no sync manager and started no sync attempt,
\* fetches the chain info only once, and has released the guard when it has
\* returned.
C14_BootstrapFailsClosed ==
    /\ [](\A i \in Procs :
            C14_BootstrapFails(i) =>
                /\ inv[i].pc \in {"exit", "returned"}
                /\ inv[i].ret =
                     IF inv[i].info = NilInfo THEN "errChainInfo"
                     ELSE IF InfoHash(inv[i].info) # inv[i].hash THEN "errHashMismatch"
                     ELSE "errBeaconID"
                /\ inv[i].store = "none" /\ ~inv[i].cbAdded
                /\ inv[i].syncer = "none" /\ inv[i].attempts = 0
                /\ inv[i].sync = "none"
                /\ inv[i].pc = "returned" => syncerCancel = NoHandle)
    /\ [][\A i \in Procs :
            (inv[i].kind = "follow" /\ inv[i].pc # "f_info") => inv'[i].pc # "f_info"]_vars

\* C14 witness: a follow whose peer answered with the chain info of another
\* chain than the requested one has returned the hash mismatch.
C14_Witness ==
    \E i \in Procs :
        /\ inv[i].pc = "returned" /\ inv[i].ret = "errHashMismatch"
        /\ inv[i].info = "infoA" /\ inv[i].hash = "hashB"
        /\ syncerCancel = NoHandle

\* the positions of the reset messages on the stream of invocation i
C15_Resets(i) ==
    {k \in 1..Len(inv[i].stream) : inv[i].stream[k].phase = "reset"}

\* C15: a check invocation whose validation pass has returned without error
\* and that is past line 453 has sent exactly one reset message, with
\* current 0 and target the number of faulty beacons, also when it has taken
\* the dry-run or empty-faulty-set exit; the validation messages all precede
\* it, the correction messages all follow it, and CorrectChain is called only
\* after it; before line 453 and when the validation has failed no reset
\* message is sent.
C15_OneResetBetweenPhases ==
    \A i \in Procs :
        inv[i].kind = "check" =>
            /\ Cardinality(C15_Resets(i)) =
                   IF \/ inv[i].pc \in {"c_reset_send", "c_dryrun", "c_correct",
                                         "c_correcting", "c_select"}
                      \/ inv[i].pc \in {"exit", "returned"} /\ inv[i].ret # "errValidate"
                   THEN 1 ELSE 0
            /\ \A k \in C15_Resets(i) :
                   /\ inv[i].stream[k].Current = 0
                   /\ inv[i].stream[k].Target = inv[i].faulty
                   /\ \A n \in 1..(k - 1) : inv[i].stream[n].phase = "validate"
                   /\ \A n \in (k + 1)..Len(inv[i].stream) : inv[i].stream[n].phase = "correct"
            /\ (C15_Resets(i) = {}) =>
                   /\ inv[i].corrections = 0
                   /\ \A n \in 1..Len(inv[i].stream) : inv[i].stream[n].phase = "validate"

\* C15 witness: a dry run whose validation reported progress and found
\* faulty beacons has returned, and the reset message is the last on its
\* stream.
C15_Witness ==
    \E i \in Procs :
        /\ inv[i].kind = "check" /\ inv[i].pc = "returned" /\ dryRun(inv[i].nodes)
        /\ Len(inv[i].stream) >= 2
        /\ inv[i].stream[Len(inv[i].stream)] = Msg(0, inv[i].faulty, "reset")
        /\ inv[i].faulty > 0

\* C16: every message handed to the stream, by a progress callback or as the
\* reset of a check, has target >= current; the k-th message of a follow
\* carries the round k its callback was called with, never a lower one, and
\* the target max(k, targ): the target of the reporter, or the round when the
\* round is above it; the reset carries 0 and the number of faulty beacons.
C16_TargetAtLeastCurrent ==
    \A i \in Procs : \A k \in 1..Len(inv[i].stream) :
        LET msg == inv[i].stream[k]
        IN  /\ msg.Target >= msg.Current
            /\ msg.phase = "follow" =>
                   msg.Current = k /\ msg.Target = Max2(k, inv[i].targ)
            /\ msg.phase = "reset" =>
                   msg.Current = 0 /\ msg.Target = inv[i].faulty

\* C16 witness: the callback of a follow was called with a round above its
\* target and the message went out with the target raised to the round.
C16_Witness ==
    \E i \in Procs : \E k \in 1..Len(inv[i].stream) :
        /\ inv[i].stream[k].phase = "follow"
        /\ inv[i].stream[k].Current > inv[i].targ
        /\ inv[i].stream[k].Target = inv[i].stream[k].Current

\* the values StartFollowChain and StartCheckChain return
C17_Returns ==
    {"none", "ok", "errAlreadySyncing", "errNoBeacon", "errChainInfo",
     "errHashMismatch", "errBeaconID", "errCreateStore", "errPutGenesis",
     "errScheme", "errSchemeStore", "errSyncManager", "errCancelled",
     "errValidate", "errCorrect"}

\* The stream.Send of a callback call of invocation i returns in this step.
C17_CbSendReturns(i) ==
    /\ inv[i].pc # "idle" /\ inv'[i].pc = inv[i].pc
    /\ inv[i].inSend # "no" /\ inv'[i].inSend = "no"

\* C17: when the stream.Send of a callback call returns, with or without an
\* error, a call of a reporter that is not in continuous mode whose message
\* has current = target > 0 executes close(done), and the step changes
\* nothing else of the session than the record of the send; the reset of a
\* check is followed by the dry-run decision, and the decision by success or
\* by the CorrectChain call, as the faulty set and the request say; and no
\* invocation returns the error of a Send.
C17_SendErrorsSwallowed ==
    /\ [][\A i \in Procs :
            C17_CbSendReturns(i) =>
                LET msg == inv[i].stream[Len(inv[i].stream)]
                IN  /\ (~inv[i].keepFollowing /\ msg.Target > 0 /\ msg.Current = msg.Target)
                        => inv'[i].done = inv[i].done + 1
                    /\ inv'[i] = [inv[i] EXCEPT !.inSend = "no",
                                                !.sendErr = inv'[i].sendErr,
                                                !.done = inv'[i].done]]_vars
    /\ [][\A i \in Procs :
            /\ (inv[i].pc = "c_reset" /\ inv'[i].pc # "c_reset") =>
                   inv'[i].pc = "c_reset_send"
            /\ (inv[i].pc = "c_reset_send" /\ inv'[i].pc # "c_reset_send") =>
                   inv'[i].pc = "c_dryrun"
            /\ (inv[i].pc = "c_dryrun" /\ inv'[i].pc # "c_dryrun") =>
                   IF inv[i].faulty = 0 \/ inv[i].nodes = <<SelfAddr>>
                   THEN inv'[i].pc = "exit" /\ inv'[i].ret = "ok"
                   ELSE inv'[i].pc = "c_correct"]_vars
    /\ [](\A i \in Procs : inv[i].ret \in C17_Returns)

\* C17 witness: the Send of the message that reached the target of a bounded
\* follow failed, and the follow has returned success.
C17_Witness ==
    \E i \in Procs :
        /\ inv[i].kind = "follow" /\ inv[i].pc = "returned" /\ inv[i].ret = "ok"
        /\ inv[i].sendErr
        /\ inv[i].stream[Len(inv[i].stream)].Current = inv[i].targ

Min2(a, b) == IF a < b THEN a ELSE b

\* C18: the target of a follow is the wall-clock round R read at bootstrap
\* when upTo = 0 and min(R, upTo) otherwise, the reporter is in continuous
\* mode iff upTo = 0, and neither changes afterwards; in a follow with
\* upTo # 0 the call that reports the stored round equal to the target
\* (target > 0) raises the completion signal once its Send has returned,
\* which makes the success exit of the wait available, also when upTo is
\* above R.
C18_TargetFixedAtBootstrap ==
    /\ [](\A i \in Procs :
            (inv[i].kind = "follow" /\ inv[i].cbAdded) =>
                /\ inv[i].targ = IF inv[i].upTo = 0 THEN inv[i].currentRound
                                 ELSE Min2(inv[i].currentRound, inv[i].upTo)
                /\ inv[i].keepFollowing <=> inv[i].upTo = 0
                /\ (inv[i].upTo # 0 /\ inv[i].targ > 0
                       /\ \/ inv[i].lastRound > inv[i].targ
                          \/ inv[i].lastRound = inv[i].targ /\ inv[i].inSend = "no") =>
                       /\ inv[i].done >= 1
                       /\ (inv[i].pc = "f_select" /\ ~crashed) => ENABLED FollowSelectDone(i))
    /\ [][\A i \in Procs :
            (inv[i].kind = "follow" /\ inv[i].cbAdded /\ inv'[i].kind = "follow") =>
                /\ inv'[i].targ = inv[i].targ
                /\ inv'[i].keepFollowing = inv[i].keepFollowing]_vars

\* C18 witness: a follow with upTo above the wall-clock round R > 0 has
\* returned success after storing round R and no further round.
C18_Witness ==
    \E i \in Procs :
        /\ inv[i].kind = "follow" /\ inv[i].pc = "returned" /\ inv[i].ret = "ok"
        /\ inv[i].currentRound > 0 /\ inv[i].upTo > inv[i].currentRound
        /\ inv[i].lastRound = inv[i].currentRound

\* C19: a call cb(current, target) of a reporter made with keepFollowing =
\* false that has returned has executed close(done) if and only if
\* current > 0 and current >= target, so also when current is above target,
\* and such a call is not
\* suppressed by the rate limiter; a reporter in continuous mode never
\* executes it.
C19_ClosesOnAtOrAboveTarget ==
    prog.last.out \in {"suppressed", "sent", "sendErr"} =>
        /\ prog.last.closed <=>
               (~prog.keepFollowing /\ prog.last.curr > 0
                   /\ prog.last.curr >= prog.last.targ)
        /\ (prog.last.curr > 0 /\ prog.last.curr >= prog.last.targ) =>
               prog.last.out # "suppressed"

\* C19 witness: the first call of a reporter made with keepFollowing = false
\* had current above the skip-threshold and above its target, and raised the
\* completion signal.
C19_Witness ==
    /\ ~prog.keepFollowing /\ prog.calls = 1 /\ prog.done = 1
    /\ prog.last.curr > LogsToSkip /\ prog.last.curr > prog.last.targ
    /\ prog.last.targ > 0

\* C20: in a follow with upTo # 0 close(done) is executed at most once,
\* however the stored rounds of the sync attempt interleave with the
\* controller's reaction to the completion (cancelling the sub-scope,
\* removing the callback, closing the callback store), and the process does
\* not die of a second close.
C20_FollowClosesOnce ==
    \A i \in Procs :
        (inv[i].kind = "follow" /\ inv[i].upTo # 0) =>
            inv[i].done <= 1 /\ ~crashed

\* Check invocation i waits in the select of lines 483-490 with the
\* completion signal not raised and its context not cancelled.
C21_Blocked(i) ==
    inv[i].pc = "c_select" /\ inv[i].done = 0 /\ ~inv[i].ctxDone

\* C21: a check invocation enters the wait of lines 483-490 only from a
\* CorrectChain call that returned without error, and an error of
\* CorrectChain is returned at once; after a correction it returns success
\* only if the correction callback was called with current >= target > 0;
\* while that call has not been made and the caller has not cancelled, the
\* invocation stays in the wait, holding the guard, and it leaves the wait
\* only with the cancellation error of its caller.
C21_CorrectThenWait ==
    /\ [][\A i \in Procs :
            /\ (inv[i].pc # "c_select" /\ inv'[i].pc = "c_select") =>
                   inv[i].pc = "c_correcting" /\ inv[i].corrections = 1
            /\ (inv[i].pc = "c_correcting" /\ inv'[i].pc # "c_correcting") =>
                   \/ inv'[i].pc = "c_select"
                   \/ inv'[i].pc = "exit" /\ inv'[i].ret = "errCorrect"
            /\ (inv[i].pc = "c_select" /\ inv[i].done = 0 /\ inv'[i].pc # "c_select") =>
                   /\ inv[i].callerDone
                   /\ inv'[i].pc = "exit" /\ inv'[i].ret = "errCancelled"]_vars
    /\ [](\A i \in Procs :
            /\ (inv[i].kind = "check" /\ inv[i].corrections > 0 /\ inv[i].ret = "ok") =>
                   /\ inv[i].done >= 1
                   /\ inv[i].targ > 0 /\ inv[i].lastRound >= inv[i].targ
            /\ C21_Blocked(i) =>
                   /\ syncerCancel = i
                   /\ ~ENABLED CheckSelectDone(i)
                   /\ ~ENABLED CheckSelectCancelled(i))

\* C21 witness: CorrectChain has returned without error and without having
\* reported every faulty beacon; the invocation waits, holding the guard,
\* and its caller has not cancelled.
C21_Witness ==
    \E i \in Procs :
        /\ C21_Blocked(i)
        /\ inv[i].corrections = 1 /\ inv[i].lastRound < inv[i].targ
        /\ syncerCancel = i /\ ~inv[i].callerDone

=============================================================================
